---------------------------- MODULE Spec2Model ----------------------------
(***************************************************************************)
(* A model of the stock valuation app (App.tsx): the search handler and    *)
(* its three state slots (stockData, loading, error), the real-data path   *)
(* fetchRealStockData, the fallback generator getMockData, and the derived *)
(* values calculateMA / maData, valuationStatus and cursorPosition.        *)
(*                                                                         *)
(* Numbers.  The data that enters the program has two decimals (the API's  *)
(* prices and P/E ratios, the generator's toFixed(2) values): it is kept   *)
(* as an integer count of hundredths.  Every value the program derives by  *)
(* arithmetic is a JavaScript number, modelled as an exact rational        *)
(* [n, d] in lowest terms with d > 0, or one of the three non-finite       *)
(* values of a double: [1,0] = +Infinity, [-1,0] = -Infinity, [0,0] = NaN. *)
(* Rounding of binary floating point is not modelled.                      *)
(***************************************************************************)
EXTENDS Integers, Sequences, FiniteSets, TLC

-----------------------------------------------------------------------------
(* JavaScript numbers *)

Abs(a) == IF a < 0 THEN -a ELSE a

RECURSIVE Gcd(_, _)
Gcd(a, b) == IF b = 0 THEN a ELSE Gcd(b, a % b)

NaN == [n |-> 0, d |-> 0]

Sign(a) == IF a > 0 THEN 1 ELSE IF a < 0 THEN -1 ELSE 0

\* The number n/d (d # 0) in lowest terms.
Rat(n, d) ==
    LET g == Gcd(Abs(n), Abs(d))
        s == IF d < 0 THEN -1 ELSE 1
    IN  [n |-> s * (n \div g), d |-> s * (d \div g)]

Num(k) == [n |-> k, d |-> 1]

\* A value held in hundredths, as a number.
FromCents(c) == Rat(c, 100)

IsNaN(x) == x.d = 0 /\ x.n = 0
IsFinite(x) == x.d > 0

\* x + y
RAdd(x, y) ==
    IF IsNaN(x) \/ IsNaN(y) THEN NaN
    ELSE IF x.d = 0 /\ y.d = 0 THEN (IF x.n = y.n THEN x ELSE NaN)
    ELSE IF x.d = 0 THEN x
    ELSE IF y.d = 0 THEN y
    ELSE LET g == Gcd(x.d, y.d)
             l == (x.d \div g) * y.d
         IN  Rat(x.n * (l \div x.d) + y.n * (l \div y.d), l)

RNeg(x) == [n |-> -x.n, d |-> x.d]

\* x - y
RSub(x, y) == RAdd(x, RNeg(y))

\* x * y
RMul(x, y) ==
    IF IsNaN(x) \/ IsNaN(y) THEN NaN
    ELSE IF x.d = 0 \/ y.d = 0
         THEN [n |-> Sign(x.n) * Sign(y.n), d |-> 0]
    ELSE LET g1 == Gcd(Abs(x.n), y.d)
             g2 == Gcd(Abs(y.n), x.d)
         IN  Rat((x.n \div g1) * (y.n \div g2), (x.d \div g2) * (y.d \div g1))

\* x / y, with JavaScript's results for a zero or non-finite divisor.
RDiv(x, y) ==
    IF IsNaN(x) \/ IsNaN(y) THEN NaN
    ELSE IF y.d = 0 THEN (IF x.d = 0 THEN NaN ELSE Num(0))
    ELSE IF y.n = 0 THEN [n |-> Sign(x.n), d |-> 0]
    ELSE IF x.d = 0 THEN [n |-> Sign(x.n) * Sign(y.n), d |-> 0]
    ELSE RMul(x, [n |-> Sign(y.n) * y.d, d |-> Abs(y.n)])

\* x < y; false when either is NaN.
RLt(x, y) ==
    /\ ~IsNaN(x)
    /\ ~IsNaN(y)
    /\ IF x.d > 0 /\ y.d > 0
       THEN LET g == Gcd(x.d, y.d)
            IN  x.n * (y.d \div g) < y.n * (x.d \div g)
       ELSE IF x.d = 0 /\ y.d = 0 THEN x.n < y.n
       ELSE IF x.d = 0 THEN x.n < 0
       ELSE y.n > 0

\* x <= y; false when either is NaN.
RLe(x, y) == ~IsNaN(x) /\ ~IsNaN(y) /\ (x = y \/ RLt(x, y))

\* x >= y
RGe(x, y) == RLe(y, x)

\* Math.max(x, y) and Math.min(x, y): NaN when either is NaN.
MathMax(x, y) == IF IsNaN(x) \/ IsNaN(y) THEN NaN ELSE IF RLt(x, y) THEN y ELSE x
MathMin(x, y) == IF IsNaN(x) \/ IsNaN(y) THEN NaN ELSE IF RLt(y, x) THEN y ELSE x

\* !x of a number: 0 and NaN are falsy.
Falsy(x) == IsNaN(x) \/ (x.d > 0 /\ x.n = 0)

\* floor(len * tenths / 10): Math.floor(length * 0.1), Math.floor(length * 0.9).
FloorTenths(len, tenths) == (len * tenths) \div 10

\* A value that may be absent (null, undefined): <<>> or <<v>>.
None == <<>>
Some(v) == <<v>>
IsSome(o) == Len(o) = 1
Get(o) == o[1]

-----------------------------------------------------------------------------
(* Symbols.  A symbol is the sequence of its character codes: "2330" is     *)
(* <<50, 51, 51, 48>> and the empty string is <<>>.                          *)

Sym2330 == <<50, 51, 51, 48>>
Sym2317 == <<50, 51, 49, 55>>
EmptySym == <<>>

\* The symbols a user types (the input's values).
Symbols == {Sym2330, Sym2317}

-----------------------------------------------------------------------------
(* Sequences *)

Reverse(s) == [i \in 1..Len(s) |-> s[Len(s) + 1 - i]]

\* The number of elements of sorted[lo..hi] that are <= x, plus lo - 1:
\* the place after which x goes (binary search).
RECURSIVE UpperBound(_, _, _, _)
UpperBound(sorted, x, lo, hi) ==
    IF lo > hi THEN lo - 1
    ELSE LET mid == (lo + hi) \div 2
         IN  IF sorted[mid] <= x
             THEN UpperBound(sorted, x, mid + 1, hi)
             ELSE UpperBound(sorted, x, lo, mid - 1)

InsertSorted(sorted, x) ==
    LET p == UpperBound(sorted, x, 1, Len(sorted))
    IN  SubSeq(sorted, 1, p) \o <<x>> \o SubSeq(sorted, p + 1, Len(sorted))

\* acc with s[lo..hi] inserted one by one, in order (the first half is
\* evaluated, and its length checked, before the second half starts).
RECURSIVE InsertAll(_, _, _, _)
InsertAll(acc, s, lo, hi) ==
    IF lo > hi THEN acc
    ELSE IF lo = hi THEN InsertSorted(acc, s[lo])
    ELSE LET mid == (lo + hi) \div 2
             left == InsertAll(acc, s, lo, mid)
         IN  CASE Len(left) = Len(acc) + (mid - lo + 1) ->
                  InsertAll(left, s, mid + 1, hi)

\* .sort((a, b) => a - b): the numbers of s in ascending order.
SortAsc(s) == InsertAll(<<>>, s, 1, Len(s))

-----------------------------------------------------------------------------
(* fetchRealStockData: the real path.                                       *)
(*                                                                          *)
(* What the three fetches deliver is a response:                            *)
(*   rejected : a fetch or a .json() call failed (network error)            *)
(*   price    : priceJson.data, absent or a sequence of [date, close]       *)
(*   per      : perJson.data, absent or a sequence of [date, p_e_ratio],    *)
(*              p_e_ratio absent or a number of hundredths                  *)
(*   info     : infoJson.data, absent or a sequence of [stock_name], a name *)
(*              being the sequence of its character codes                   *)
(* The API lists records oldest first; dates are day numbers.               *)

RealSource == "FinMind API"

PlausiblePE(pe) == IsSome(pe) /\ Get(pe) > 0 /\ Get(pe) < 200 * 100

\* rawPERs.map(d => d.p_e_ratio).filter(pe => pe > 0 && pe < 200)
RECURSIVE PlausiblePEs(_, _, _)
PlausiblePEs(rawPERs, lo, hi) ==
    IF lo > hi THEN <<>>
    ELSE IF lo = hi
         THEN (IF PlausiblePE(rawPERs[lo].p_e_ratio)
               THEN <<Get(rawPERs[lo].p_e_ratio)>> ELSE <<>>)
    ELSE LET mid == (lo + hi) \div 2
         IN  PlausiblePEs(rawPERs, lo, mid) \o PlausiblePEs(rawPERs, mid + 1, hi)

\* validPEs: the plausible P/E values of the P/E records, ascending.
ValidPEs(rawPERs) == SortAsc(PlausiblePEs(rawPERs, 1, Len(rawPERs)))

\* rawPERs.find(p => p.date === date)?.p_e_ratio || 0
JoinedPE(rawPERs, date) ==
    LET hits == {j \in 1..Len(rawPERs) : rawPERs[j].date = date}
    IN  IF hits = {} THEN 0
        ELSE LET first == CHOOSE j \in hits : \A k \in hits : j <= k
                 pe == rawPERs[first].p_e_ratio
             IN  IF IsSome(pe) THEN Get(pe) ELSE 0

\* historyData: one record per price record, newest first.
JoinHistory(rawPrices, rawPERs) ==
    [i \in 1..Len(rawPrices) |->
        [date |-> rawPrices[i].date,
         close |-> rawPrices[i].close,
         pe |-> JoinedPE(rawPERs, rawPrices[i].date)]]

\* A fallback to the largest plausible value instead of the smallest.
ValidCurrentPELargest(currentPERData, validPEs) ==
    IF IsSome(currentPERData) /\ Get(currentPERData) # 0
    THEN Get(currentPERData)
    ELSE validPEs[Len(validPEs)]

\* currentPERData || validPEs[0]
ValidCurrentPE(currentPERData, validPEs) ==
    IF IsSome(currentPERData) /\ Get(currentPERData) # 0
    THEN Get(currentPERData)
    ELSE validPEs[1]

DefaultMinPE == 10
DefaultMaxPE == 20
DefaultPE == 15
\* A threshold one too low: ten plausible values already count as enough.
MinValidPECountOneLess == 10 - 1

MinValidPECount == 10

\* let minPE, maxPE, eps ... fairPrice: the band of the real path.
RealValuation(currentPrice, currentPERData, validPEs) ==
    LET n == Len(validPEs)
        fromData == n > MinValidPECount
        minPE == IF fromData THEN FromCents(validPEs[FloorTenths(n, 1) + 1])
                 ELSE Num(DefaultMinPE)
        maxPE == IF fromData THEN FromCents(validPEs[FloorTenths(n, 9) + 1])
                 ELSE Num(DefaultMaxPE)
        eps == IF fromData
               THEN RDiv(FromCents(currentPrice),
                         FromCents(ValidCurrentPE(currentPERData, validPEs)))
               ELSE RDiv(FromCents(currentPrice), Num(DefaultPE))
        cheapPrice == RMul(eps, minPE)
        expensivePrice == RMul(eps, maxPE)
        fairPrice == RDiv(RAdd(cheapPrice, expensivePrice), Num(2))
    IN  [minPE |-> minPE, maxPE |-> maxPE, cheapPrice |-> cheapPrice,
         fairPrice |-> fairPrice, expensivePrice |-> expensivePrice, eps |-> eps]

\* Whether fetchRealStockData throws on this response.
RealFetchThrows(resp) ==
    \/ resp.rejected
    \/ ~IsSome(resp.price)
    \/ Len(Get(resp.price)) = 0
    \/ ~IsSome(resp.per)

\* The StockData fetchRealStockData returns on a response it does not throw on.
fetchRealStockData(symbol, resp) ==
    LET rawPrices == Reverse(Get(resp.price))
        rawPERs == Reverse(Get(resp.per))
        stockName == IF IsSome(resp.info) /\ Len(Get(resp.info)) > 0
                     THEN Get(resp.info)[1].stock_name
                     ELSE symbol
        currentPrice == rawPrices[1].close
        currentPERData == IF Len(rawPERs) > 0 THEN rawPERs[1].p_e_ratio ELSE None
        prevPrice == IF Len(rawPrices) >= 2 THEN rawPrices[2].close ELSE currentPrice
    IN  [source |-> RealSource,
         isReal |-> TRUE,
         symbol |-> symbol,
         name |-> stockName,
         currentPrice |-> currentPrice,
         change |-> currentPrice - prevPrice,
         currentPE |-> currentPERData,
         historyData |-> JoinHistory(rawPrices, rawPERs),
         valuation |-> RealValuation(currentPrice, currentPERData, ValidPEs(rawPERs))]

-----------------------------------------------------------------------------
(* getMockData: the fallback generator.                                     *)
(*                                                                          *)
(* The loop's price is a double: it is kept in thousandths, and toFixed(2)  *)
(* rounds it to hundredths.  Math.random() is an input: a stream names the  *)
(* values the calls return, in thousandths (0..999), by the call's number.  *)
(* Math.sin is computed in fixed point (its Taylor polynomial).             *)

\* A generator that labels its output like the real path.
MockSourceLikeReal == RealSource

\* '模擬數據 (API連線失敗)'
MockSource == "Mock data (API connection failed)"

\* '台積電(模)' and '模擬個股', as character codes.
MockName2330 == <<21488, 31309, 38651, 40, 27169, 41>>
MockNameOther == <<27169, 25836, 20491, 32929>>

MockDays == 365 * 3

\* symbol.split('').reduce((acc, char) => acc + char.charCodeAt(0), 0)
RECURSIVE Seed(_)
Seed(symbol) == IF symbol = <<>> THEN 0 ELSE Head(symbol) + Seed(Tail(symbol))

\* 500 + (seed % 200), in thousandths.
BasePrice(symbol) == (500 + (Seed(symbol) % 200)) * 1000

\* sin(x) * 10 in thousandths, for x in thousandths of a radian, 0 <= x <= pi/2.
SinQuadrant(x) ==
    LET x2 == (x * x) \div 1000
        t3 == 100000 - (x2 * 100) \div 42
        t2 == 100000 - (x2 * t3) \div 20000
        t1 == 100000 - (x2 * t2) \div 6000
    IN  ((x * t1) \div 1000) \div 10

\* Math.sin(i * 0.1) * 10, in thousandths.
Sin10(i) ==
    LET a == ((i * 100000) % 6283185) \div 1000
    IN  IF a <= 1571 THEN SinQuadrant(a)
        ELSE IF a <= 3142 THEN SinQuadrant(3142 - a)
        ELSE IF a <= 4712 THEN -SinQuadrant(a - 3142)
        ELSE -SinQuadrant(6283 - a)

\* The k-th value Math.random() returns in stream r, in thousandths.
Random(r, k) ==
    IF r = 1 THEN (k * 7919 + 271) % 1000
    ELSE IF r = 2 THEN 0
    ELSE (k * 6113 + (r * 389)) % 1000

\* price.toFixed(2) of a price in thousandths, in hundredths (half up).
ToFixed2(milli) == (milli + 5) \div 10

MinPrice == 10

\* One pass of the for loop, day i: the price after it and the record pushed.
\* st is [price, data].
MockDay(st, i, r, today) ==
    LET change == Sin10(i) + (Random(r, 2 * i + 1) - 500) * 5
        moved == st.price + change
        price == IF moved < MinPrice * 1000 THEN MinPrice * 1000 ELSE moved
        divisor == 20000 + Random(r, 2 * i + 2) * 5
        rec == [date |-> today - (MockDays - i),
                close |-> ToFixed2(price),
                pe |-> (200 * price + divisor) \div (2 * divisor)]
    IN  [price |-> price, data |-> Append(st.data, rec)]

\* The passes lo..hi of the for loop, in order.
RECURSIVE MockLoop(_, _, _, _, _)
MockLoop(st, lo, hi, r, today) ==
    IF lo > hi THEN st
    ELSE IF lo = hi THEN MockDay(st, lo, r, today)
    ELSE LET mid == (lo + hi) \div 2
             left == MockLoop(st, lo, mid, r, today)
         IN  CASE Len(left.data) = Len(st.data) + (mid - lo + 1) ->
                  MockLoop(left, mid + 1, hi, r, today)

\* generatePrices(days): the records, newest first.
generatePrices(symbol, days, r, today) ==
    Reverse(MockLoop([price |-> BasePrice(symbol), data |-> <<>>],
                     0, days - 1, r, today).data)

\* The mock band with a fair price that is not halved.
MockValuationNotHalved(currentPrice, currentPE, peValues) ==
    LET n == Len(peValues)
        minPE == FromCents(peValues[FloorTenths(n, 1) + 1])
        maxPE == FromCents(peValues[FloorTenths(n, 9) + 1])
        eps == RDiv(FromCents(currentPrice), FromCents(currentPE))
    IN  [minPE |-> minPE, maxPE |-> maxPE,
         cheapPrice |-> RMul(eps, minPE),
         fairPrice |-> RMul(eps, RAdd(minPE, maxPE)),
         expensivePrice |-> RMul(eps, maxPE),
         eps |-> eps]

\* The band getMockData computes.
MockValuation(currentPrice, currentPE, peValues) ==
    LET n == Len(peValues)
        minPE == FromCents(peValues[FloorTenths(n, 1) + 1])
        maxPE == FromCents(peValues[FloorTenths(n, 9) + 1])
        eps == RDiv(FromCents(currentPrice), FromCents(currentPE))
    IN  [minPE |-> minPE, maxPE |-> maxPE,
         cheapPrice |-> RMul(eps, minPE),
         fairPrice |-> RDiv(RMul(eps, RAdd(minPE, maxPE)), Num(2)),
         expensivePrice |-> RMul(eps, maxPE),
         eps |-> eps]

\* The StockData getMockData resolves with when its timer fires on day today,
\* Math.random() following stream r.
getMockData(symbol, r, today) ==
    LET historyData == generatePrices(symbol, MockDays, r, today)
        currentPrice == historyData[1].close
        currentPE == historyData[1].pe
        peValues == SortAsc([i \in 1..Len(historyData) |-> historyData[i].pe])
    IN  [source |-> MockSource,
         isReal |-> FALSE,
         symbol |-> symbol,
         name |-> IF symbol = Sym2330 THEN MockName2330 ELSE MockNameOther,
         currentPrice |-> currentPrice,
         change |-> Random(r, 2 * MockDays + 1) - 500,
         currentPE |-> Some(currentPE),
         historyData |-> historyData,
         valuation |-> MockValuation(currentPrice, currentPE, peValues)]

-----------------------------------------------------------------------------
(* The values App derives from the snapshot slot.  stockData is None (null) *)
(* or Some(snapshot).                                                       *)

\* data.slice(lo, hi).reduce((acc, curr) => acc + curr.close, 0), in hundredths.
RECURSIVE SumClose(_, _, _)
SumClose(data, lo, hi) ==
    IF lo > hi THEN 0
    ELSE IF lo = hi THEN data[lo].close
    ELSE LET mid == (lo + hi) \div 2
         IN  SumClose(data, lo, mid) + SumClose(data, mid + 1, hi)

calculateMA(data, days) ==
    IF Len(data) < days THEN Num(0)
    ELSE RDiv(FromCents(SumClose(data, 1, days)), Num(days))

Windows == {5, 10, 20, 60, 120, 240}

\* maData: null, or the six moving averages by window.
maData(sd) ==
    IF ~IsSome(sd) THEN None
    ELSE Some([w \in Windows |-> calculateMA(Get(sd).historyData, w)])

\* '無資料', '便宜價', '昂貴價', '合理價'
StatusNoData == "NoData"
StatusCheap == "Cheap"
StatusExpensive == "Expensive"
StatusFair == "Fair"

\* The weights 0.4 and 0.6, and the margins 0.8 and 1.2.
W04 == Rat(2, 5)
W06 == Rat(3, 5)
M08 == Rat(4, 5)
M12 == Rat(6, 5)

\* The lower threshold with its two weights exchanged.
LowerThresholdSwapped(v) == RAdd(RMul(v.cheapPrice, W06), RMul(v.fairPrice, W04))

LowerThreshold(v) == RAdd(RMul(v.cheapPrice, W04), RMul(v.fairPrice, W06))
UpperThreshold(v) == RAdd(RMul(v.fairPrice, W04), RMul(v.expensivePrice, W06))

valuationStatus(sd) ==
    IF ~IsSome(sd) THEN StatusNoData
    ELSE LET currentPrice == FromCents(Get(sd).currentPrice)
             valuation == Get(sd).valuation
         IN  IF Falsy(valuation.cheapPrice) \/ Falsy(valuation.expensivePrice)
             THEN StatusNoData
             ELSE IF RLe(currentPrice, LowerThreshold(valuation)) THEN StatusCheap
             ELSE IF RGe(currentPrice, UpperThreshold(valuation)) THEN StatusExpensive
             ELSE StatusFair

\* The cursor position without the guard on a zero cheapPrice.
cursorPositionUnguarded(sd) ==
    IF ~IsSome(sd) THEN Num(50)
    ELSE LET currentPrice == FromCents(Get(sd).currentPrice)
             valuation == Get(sd).valuation
             range == RSub(RMul(valuation.expensivePrice, M12),
                           RMul(valuation.cheapPrice, M08))
             pos == RMul(RDiv(RSub(currentPrice, RMul(valuation.cheapPrice, M08)),
                              range),
                         Num(100))
         IN  MathMin(MathMax(pos, Num(0)), Num(100))

cursorPosition(sd) ==
    IF ~IsSome(sd) \/ Falsy(Get(sd).valuation.cheapPrice) THEN Num(50)
    ELSE LET currentPrice == FromCents(Get(sd).currentPrice)
             valuation == Get(sd).valuation
             range == RSub(RMul(valuation.expensivePrice, M12),
                           RMul(valuation.cheapPrice, M08))
             pos == RMul(RDiv(RSub(currentPrice, RMul(valuation.cheapPrice, M08)),
                              range),
                         Num(100))
         IN  MathMin(MathMax(pos, Num(0)), Num(100))

-----------------------------------------------------------------------------
(* What the API can deliver: the responses the model draws from.            *)

\* The number of Math.random() streams the mock timer draws from.
NumStreams == 2

\* The most handleSearch calls in flight at once.
MaxInFlight == 2

\* The last day the API has data for, and the days the mock timer can fire on.
ApiLastDay == MockDays
Days == {MockDays + 1, MockDays + 2}

\* '台積電', as character codes.
NameTSMC == <<21488, 31309, 38651>>

\* n price records, oldest first, the latest close being last.
PriceData(n, last) ==
    [i \in 1..n |->
        [date |-> ApiLastDay - n + i,
         close |-> IF i = n THEN last ELSE last + 50 * (((n - i) * 3) % 11)]]

\* P/E records, oldest first, with the given p_e_ratio values.
PerData(values) ==
    [j \in 1..Len(values) |->
        [date |-> ApiLastDay - Len(values) + j, p_e_ratio |-> values[j]]]

\* Ten plausible P/E values (the last one is the tenth) among five that are
\* not: 0, a negative one, 200, one above 200, and a record without the field.
TenPEs ==
    << Some(1200), Some(0), Some(700), Some(1050), Some(-500), Some(900),
       Some(1300), None, Some(800), Some(1150), Some(20000), Some(950),
       Some(25000), Some(1100), Some(1000) >>

\* The P/E values 1.00 .. 100.00, each once, not in order.
HundredPEs == [j \in 1..100 |-> Some(100 * (((j * 37) % 100) + 1))]

\* Eleven plausible P/E values among the same five.
ElevenPEs == TenPEs \o <<Some(1100)>>

PerVariants ==
    [ empty |-> <<>>,
      ten |-> TenPEs,
      tenLatestZero |-> TenPEs \o <<Some(0)>>,
      tenLatestNegative |-> TenPEs \o <<Some(-500)>>,
      latestZero |-> ElevenPEs \o <<Some(0)>>,
      latestAbsent |-> ElevenPEs \o <<None>>,
      latestNegative |-> ElevenPEs \o <<Some(-500)>>,
      latestHuge |-> ElevenPEs \o <<Some(25000)>>,
      hundred |-> HundredPEs ]

Delivered(price, per, info) ==
    [rejected |-> FALSE, price |-> price, per |-> per, info |-> info]

InfoTSMC == Some(<<[stock_name |-> NameTSMC]>>)

\* The lengths of the price series delivered, around the windows.
PriceLens == {1, 4, 5, 12, 20, 61, 120, 240}

Failures ==
    { [rejected |-> TRUE, price |-> None, per |-> None, info |-> None],
      Delivered(None, Some(<<>>), None),
      Delivered(Some(<<>>), Some(<<>>), InfoTSMC),
      Delivered(Some(PriceData(5, 15000)), None, InfoTSMC) }

ResponseSet ==
    Failures
    \cup { Delivered(Some(PriceData(n, 15000)), Some(PerData(PerVariants.ten)),
                     InfoTSMC) : n \in PriceLens }
    \cup { Delivered(Some(PriceData(20, 10 * pe)),
                     Some(PerData(TenPEs \o <<Some(pe)>>)), Some(<<>>))
           : pe \in {920, 1000, 1080, 1120} }
    \cup { Delivered(Some(PriceData(5, 15000)), Some(PerData(PerVariants[v])), None)
           : v \in DOMAIN PerVariants }
    \cup { Delivered(Some(PriceData(5, 0)), Some(PerData(PerVariants[v])), None)
           : v \in {"ten", "latestHuge"} }
    \cup { Delivered(Some(PriceData(n, 15000)), Some(PerData(HundredPEs)), InfoTSMC)
           : n \in {61, 120} }

\* The responses, numbered.
RECURSIVE Enumerate(_)
Enumerate(S) ==
    IF S = {} THEN <<>>
    ELSE LET x == CHOOSE y \in S : TRUE IN <<x>> \o Enumerate(S \ {x})

Responses == Enumerate(ResponseSet)
NumResponses == Len(Responses)

\* What fetchRealStockData does with each response, per symbol (computed once):
\* None when it throws, Some(data) when it returns data.
RealOutcome ==
    [s \in Symbols |->
        [k \in 1..NumResponses |->
            IF RealFetchThrows(Responses[k]) THEN None
            ELSE Some(fetchRealStockData(s, Responses[k]))]]

\* What getMockData resolves with, per symbol, stream and day (computed once).
MockOutcome ==
    [s \in Symbols |->
        [r \in 1..NumStreams |-> [t \in Days |-> getMockData(s, r, t)]]]

-----------------------------------------------------------------------------
(* App: the state and the search handler.                                   *)

VARIABLES
    query,        \* the input's text (a symbol, possibly empty)
    stockData,    \* the snapshot slot: None or Some(StockData)
    loading,      \* the loading flag
    error,        \* the advisory message: None or Some(message)
    mounted,      \* whether the mount effect has run
    calls,        \* the handleSearch calls in flight, oldest first:
                  \* [symbol, pc], pc = "fetch" (awaiting
                  \* fetchRealStockData) or "mock" (awaiting getMockData's
                  \* timer)
    slotResp,     \* history: the number of the response the snapshot in
                  \* the slot was built from (0: the slot is empty or mock)
    lastIssued,   \* history: the symbol of the search issued last
    lastWriter    \* history: the symbol of the call whose setStockData(data)
                  \* ran last, None after a setStockData(null)

vars == <<query, stockData, loading, error, mounted, calls, slotResp,
          lastIssued, lastWriter>>

\* '無法取得即時資料，已切換至模擬展示模式。...'
AdvisoryMessage == "Live data unavailable, switched to mock display mode."

Init ==
    /\ query = EmptySym
    /\ stockData = None
    /\ loading = FALSE
    /\ error = None
    /\ mounted = FALSE
    /\ calls = <<>>
    /\ slotResp = 0
    /\ lastIssued = None
    /\ lastWriter = None

RemoveAt(s, i) == SubSeq(s, 1, i - 1) \o SubSeq(s, i + 1, Len(s))

\* A handleSearch that drops the calls in flight when it starts a new one.
handleSearchCancelling(symbolInput) ==
    LET symbol == IF symbolInput # EmptySym THEN symbolInput ELSE query
    IN  IF symbol = EmptySym
        THEN UNCHANGED <<stockData, loading, error, calls, slotResp,
                         lastIssued, lastWriter>>
        ELSE /\ Len(calls) < MaxInFlight
             /\ loading' = TRUE
             /\ error' = None
             /\ stockData' = None
             /\ calls' = <<[symbol |-> symbol, pc |-> "fetch"]>>
             /\ slotResp' = 0
             /\ lastIssued' = Some(symbol)
             /\ lastWriter' = None

\* handleSearch(symbolInput), up to its first await.
handleSearch(symbolInput) ==
    LET symbol == IF symbolInput # EmptySym THEN symbolInput ELSE query
    IN  IF symbol = EmptySym
        THEN UNCHANGED <<stockData, loading, error, calls, slotResp,
                         lastIssued, lastWriter>>
        ELSE /\ Len(calls) < MaxInFlight
             /\ loading' = TRUE
             /\ error' = None
             /\ stockData' = None
             /\ calls' = Append(calls, [symbol |-> symbol, pc |-> "fetch"])
             /\ slotResp' = 0
             /\ lastIssued' = Some(symbol)
             /\ lastWriter' = None

\* useEffect(() => { handleSearch('2330') }, [])
Mount ==
    /\ ~mounted
    /\ mounted' = TRUE
    /\ handleSearch(Sym2330)
    /\ UNCHANGED query

\* onChange: setQuery(e.target.value)
SetQuery(q) ==
    /\ mounted
    /\ query' = q
    /\ UNCHANGED <<stockData, loading, error, mounted, calls, slotResp,
                   lastIssued, lastWriter>>

\* onKeyDown: e.key === 'Enter' && handleSearch()
PressEnter ==
    /\ mounted
    /\ handleSearch(EmptySym)
    /\ UNCHANGED <<query, mounted>>

\* onClick of the button, disabled={loading}
ClickSearch ==
    /\ mounted
    /\ ~loading
    /\ handleSearch(EmptySym)
    /\ UNCHANGED <<query, mounted>>

\* The fetch of call i settles with response k and fetchRealStockData returns:
\* setStockData(data), then finally setLoading(false).
FetchReturns(i, k) ==
    /\ calls[i].pc = "fetch"
    /\ IsSome(RealOutcome[calls[i].symbol][k])
    /\ stockData' = RealOutcome[calls[i].symbol][k]
    /\ loading' = FALSE
    /\ calls' = RemoveAt(calls, i)
    /\ slotResp' = k
    /\ lastWriter' = Some(calls[i].symbol)
    /\ UNCHANGED <<query, error, mounted, lastIssued>>

\* The fetch of call i settles with response k and fetchRealStockData throws:
\* the catch block logs the error, calls getMockData and awaits its timer.
FetchThrows(i, k) ==
    /\ calls[i].pc = "fetch"
    /\ ~IsSome(RealOutcome[calls[i].symbol][k])
    /\ calls' = [calls EXCEPT ![i].pc = "mock"]
    /\ UNCHANGED <<query, stockData, loading, error, mounted, slotResp,
                   lastIssued, lastWriter>>

\* A mock path without the finally block: loading is left as it is.
MockTimerFiresNoFinally(i, r, today) ==
    /\ calls[i].pc = "mock"
    /\ stockData' = Some(MockOutcome[calls[i].symbol][r][today])
    /\ error' = Some(AdvisoryMessage)
    /\ calls' = RemoveAt(calls, i)
    /\ slotResp' = 0
    /\ lastWriter' = Some(calls[i].symbol)
    /\ UNCHANGED <<query, loading, mounted, lastIssued>>

\* The timer of call i's getMockData fires on day today with stream r:
\* setStockData(mockData), setError(...), then finally setLoading(false).
MockTimerFires(i, r, today) ==
    /\ calls[i].pc = "mock"
    /\ stockData' = Some(MockOutcome[calls[i].symbol][r][today])
    /\ error' = Some(AdvisoryMessage)
    /\ loading' = FALSE
    /\ calls' = RemoveAt(calls, i)
    /\ slotResp' = 0
    /\ lastWriter' = Some(calls[i].symbol)
    /\ UNCHANGED <<query, mounted, lastIssued>>

Next ==
    \/ Mount
    \/ \E q \in Symbols \cup {EmptySym} : SetQuery(q)
    \/ PressEnter
    \/ ClickSearch
    \/ \E i \in 1..Len(calls), k \in 1..NumResponses : FetchReturns(i, k)
    \/ \E i \in 1..Len(calls), k \in 1..NumResponses : FetchThrows(i, k)
    \/ \E i \in 1..Len(calls), r \in 1..NumStreams, today \in Days :
          MockTimerFires(i, r, today)

Spec == Init /\ [][Next]_vars

\* The oldest call in flight takes its next step: its fetch settles, or its
\* mock timer fires.
OldestFetchSettles ==
    /\ calls # <<>>
    /\ \E k \in 1..NumResponses : FetchReturns(1, k) \/ FetchThrows(1, k)

OldestTimerFires ==
    /\ calls # <<>>
    /\ \E r \in 1..NumStreams, today \in Days : MockTimerFires(1, r, today)

\* The mount effect runs, every fetch eventually settles and every mock timer
\* eventually fires.
LiveSpec ==
    /\ Spec
    /\ WF_vars(Mount)
    /\ WF_vars(OldestFetchSettles)
    /\ WF_vars(OldestTimerFires)

-----------------------------------------------------------------------------
(* Properties *)

\* A step in which call i finishes (leaves the calls in flight).
Finishes(i) == i \in 1..Len(calls) /\ calls' = RemoveAt(calls, i)

\* C1 (state part): a snapshot flagged real carries the real label and was
\* built from a response fetchRealStockData does not throw on; a snapshot
\* flagged synthetic carries another label and comes with the advisory
\* message.
C1_SlotState ==
    /\ \A i \in 1..Len(calls) : calls[i].symbol # EmptySym
    /\ IsSome(stockData) =>
          IF Get(stockData).isReal
          THEN /\ slotResp \in 1..NumResponses
               /\ ~RealFetchThrows(Responses[slotResp])
               /\ Get(stockData).source = RealSource
          ELSE /\ slotResp = 0
               /\ Get(stockData).source # RealSource
               /\ error = Some(AdvisoryMessage)

\* C1 (step part): a call whose fetch failed stays in flight until it stores
\* the mock generator's snapshot for its own symbol, flagged synthetic, and
\* sets the advisory message; a call that finishes straight from its fetch
\* stores a real snapshot.
C1_FinishStep ==
    \A i \in 1..Len(calls) :
        Finishes(i) =>
            /\ IsSome(stockData')
            /\ Get(stockData').symbol = calls[i].symbol
            /\ ~loading'
            /\ IF calls[i].pc = "mock"
               THEN /\ ~Get(stockData').isReal
                    /\ Get(stockData').source # RealSource
                    /\ error' = Some(AdvisoryMessage)
                    /\ \E r \in 1..NumStreams, t \in Days :
                          stockData' = Some(MockOutcome[calls[i].symbol][r][t])
               ELSE /\ Get(stockData').isReal
                    /\ slotResp' \in 1..NumResponses
                    /\ ~RealFetchThrows(Responses[slotResp'])
                    /\ stockData' = RealOutcome[calls[i].symbol][slotResp']
                    /\ error' = error

\* C1: a search whose real fetch fails recovers locally with the mock
\* generator's snapshot for its symbol, flagged synthetic, labelled differently
\* from 'FinMind API', with the advisory message set; a snapshot flagged real
\* is only ever stored by a fetch that succeeded.
C1_FetchFailureFallsBackToMock == []C1_SlotState /\ [][C1_FinishStep]_vars

\* C1 witness: a failed fetch has ended with the mock snapshot in the slot.
C1_Witness ==
    /\ IsSome(stockData)
    /\ ~Get(stockData).isReal
    /\ error = Some(AdvisoryMessage)
    /\ calls = <<>>

\* The snapshot in the slot, when there is one.
Slot == Get(stockData)
SlotIsReal == IsSome(stockData) /\ Slot.isReal

\* The element of rank idx (from 0) among the values vals[j], j \in P, in
\* ascending order, stated by counting: fewer than idx + 1 values are below
\* it, and at least idx + 1 are not above it.
Ranked(vals, P, idx) ==
    CHOOSE v \in {vals[j] : j \in P} :
        /\ Cardinality({j \in P : vals[j] < v}) <= idx
        /\ Cardinality({j \in P : vals[j] <= v}) > idx

\* What the band is derived from, by response: the P/E records that carry a
\* value strictly inside (0, 200), their count, the values of rank
\* floor(0.1 * count) and floor(0.9 * count), the smallest, and the latest
\* record's value.
Observed ==
    [k \in 1..NumResponses |->
        IF RealFetchThrows(Responses[k]) THEN None
        ELSE LET per == Get(Responses[k].per)
                 P == {j \in 1..Len(per) :
                          /\ IsSome(per[j].p_e_ratio)
                          /\ Get(per[j].p_e_ratio) > 0
                          /\ Get(per[j].p_e_ratio) < 20000}
                 vals == [j \in 1..Len(per) |->
                             IF j \in P THEN Get(per[j].p_e_ratio) ELSE 0]
                 n == Cardinality(P)
             IN  Some([count |-> n,
                       low |-> IF n = 0 THEN 0 ELSE Ranked(vals, P, (n * 1) \div 10),
                       high |-> IF n = 0 THEN 0 ELSE Ranked(vals, P, (n * 9) \div 10),
                       smallest |-> IF n = 0 THEN 0 ELSE Ranked(vals, P, 0),
                       latest |-> IF Len(per) = 0 THEN None
                                  ELSE per[Len(per)].p_e_ratio])]

SlotObserved == Get(Observed[slotResp])

\* History h lists its records newest first.
NewestFirst(h) == \A i \in 1..(Len(h) - 1) : h[i].date > h[i + 1].date

\* The arithmetic mean of the first w closes of history h.
MeanOfFirst(h, w) == Rat(SumClose(h, 1, w), 100 * w)

\* C2: for every snapshot and window, the moving average is undefined (not 0,
\* not NaN) when the history is shorter than the window, and the mean of the
\* window's most recent closes otherwise.
C2_MovingAverageUndefinedWhenShort ==
    IsSome(stockData) =>
        \A w \in Windows :
            LET ma == Get(maData(stockData))[w]
                h == Slot.historyData
            IN  IF Len(h) < w
                THEN ma # Num(0) /\ ~IsNaN(ma)
                ELSE NewestFirst(h) /\ ma = MeanOfFirst(h, w)

\* The part of C2 the code does satisfy: a window the history fills gets the
\* mean of the window's most recent closes, and a shorter history gets 0.
C2_MeanWhenLongEnough ==
    IsSome(stockData) =>
        \A w \in Windows :
            LET ma == Get(maData(stockData))[w]
                h == Slot.historyData
            IN  IF Len(h) < w
                THEN ma = Num(0)
                ELSE NewestFirst(h) /\ ma = MeanOfFirst(h, w)


\* The plausible P/E values of the history series: the values joined to a
\* price date that lie strictly inside (0, 200) (a date without a P/E record
\* joins 0, which lies outside).
JoinedPlausible(h) == {i \in 1..Len(h) : h[i].pe > 0 /\ h[i].pe < 20000}

\* C3: in the real path, when more than 10 P/E observations of the history
\* series lie strictly inside (0, 200), lowPE and highPE are the values of
\* rank floor(0.1 * N) and floor(0.9 * N) (from 0) among them in ascending
\* order.
C3_BandFromHistorySeries ==
    SlotIsReal =>
        LET h == Slot.historyData
            P == JoinedPlausible(h)
            n == Cardinality(P)
            vals == [i \in 1..Len(h) |-> h[i].pe]
        IN  n > 10 =>
               /\ Slot.valuation.minPE = FromCents(Ranked(vals, P, (n * 1) \div 10))
               /\ Slot.valuation.maxPE = FromCents(Ranked(vals, P, (n * 9) \div 10))

\* What the code does instead of C3: the band is derived from all the P/E
\* records the API delivered, joined to a price date or not.
C3_BandFromPERecords ==
    SlotIsReal =>
        (SlotObserved.count > 10 =>
            /\ Slot.valuation.minPE = FromCents(SlotObserved.low)
            /\ Slot.valuation.maxPE = FromCents(SlotObserved.high))

RuleStatus(price, v) ==
    IF Falsy(v.cheapPrice) \/ Falsy(v.expensivePrice) THEN StatusNoData
    ELSE LET lower == RDiv(RAdd(RMul(Num(2), v.cheapPrice),
                                RMul(Num(3), v.fairPrice)), Num(5))
             upper == RDiv(RAdd(RMul(Num(2), v.fairPrice),
                                RMul(Num(3), v.expensivePrice)), Num(5))
         IN  IF RLe(FromCents(price), lower) THEN StatusCheap
             ELSE IF RLe(upper, FromCents(price)) THEN StatusExpensive
             ELSE StatusFair

\* The band of the example: cheap 80, fair 100, expensive 120.
ExampleBand ==
    /\ IsSome(stockData)
    /\ Slot.valuation.cheapPrice = Num(80)
    /\ Slot.valuation.fairPrice = Num(100)
    /\ Slot.valuation.expensivePrice = Num(120)

\* C6 as stated: the status follows the rule (NoData for an absent or zero
\* cheapPrice or expensivePrice, else Cheap at or below 0.4 * cheap + 0.6 *
\* fair, Expensive at or above 0.4 * fair + 0.6 * expensive, else Fair), it is
\* one of the four values, and with cheap 80, fair 100, expensive 120 the
\* price 92 is Cheap, 108 is Expensive and 100 is Fair.
C6_StatusRuleAndExample ==
    /\ valuationStatus(stockData)
          \in {StatusNoData, StatusCheap, StatusFair, StatusExpensive}
    /\ IsSome(stockData) =>
          valuationStatus(stockData) = RuleStatus(Slot.currentPrice, Slot.valuation)
    /\ ExampleBand =>
          /\ Slot.currentPrice = 9200 => valuationStatus(stockData) = StatusCheap
          /\ Slot.currentPrice = 10800 => valuationStatus(stockData) = StatusExpensive
          /\ Slot.currentPrice = 10000 => valuationStatus(stockData) = StatusFair

\* C6 amended: the same rule, and with cheap 80, fair 100, expensive 120 the
\* thresholds are 92 and 112: the price 92 is Cheap, 112 is Expensive, and
\* 100 and 108 are Fair.
C6_StatusRule ==
    /\ valuationStatus(stockData)
          \in {StatusNoData, StatusCheap, StatusFair, StatusExpensive}
    /\ ~IsSome(stockData) => valuationStatus(stockData) = StatusNoData
    /\ IsSome(stockData) =>
          valuationStatus(stockData) = RuleStatus(Slot.currentPrice, Slot.valuation)
    /\ ExampleBand =>
          /\ LowerThreshold(Slot.valuation) = Num(92)
          /\ UpperThreshold(Slot.valuation) = Num(112)
          /\ Slot.currentPrice = 9200 => valuationStatus(stockData) = StatusCheap
          /\ Slot.currentPrice = 11200 => valuationStatus(stockData) = StatusExpensive
          /\ Slot.currentPrice = 10000 => valuationStatus(stockData) = StatusFair
          /\ Slot.currentPrice = 10800 => valuationStatus(stockData) = StatusFair

\* C6 witness: the example band with the price on the lower threshold.
C6_Witness ==
    /\ ExampleBand
    /\ Slot.currentPrice = 9200
    /\ valuationStatus(stockData) = StatusCheap

\* C7: in every reachable state the cursor position is a number in [0, 100],
\* and where the position is computed the range it divides by is not zero.
C7_CursorWithinBounds ==
    LET pos == cursorPosition(stockData)
    IN  /\ IsFinite(pos)
        /\ RLe(Num(0), pos)
        /\ RLe(pos, Num(100))
        /\ (IsSome(stockData) /\ ~Falsy(Slot.valuation.cheapPrice)) =>
              LET range == RSub(RMul(Slot.valuation.expensivePrice, M12),
                                RMul(Slot.valuation.cheapPrice, M08))
              IN  IsFinite(range) /\ range # Num(0)

\* C7 witness: the price lies far above expensivePrice * 1.2 (above twice
\* expensivePrice) and the cursor is held at 100.
C7_Witness ==
    /\ IsSome(stockData)
    /\ ~Falsy(Slot.valuation.cheapPrice)
    /\ RLt(RMul(Slot.valuation.expensivePrice, Num(2)), FromCents(Slot.currentPrice))
    /\ cursorPosition(stockData) = Num(100)

\* C8: every snapshot in the slot, real or mock, has a complete band (six
\* finite numbers) with lowPE <= highPE and fairPrice the midpoint of
\* cheapPrice and expensivePrice.
C8_BandInvariant ==
    IsSome(stockData) =>
        LET v == Slot.valuation
        IN  /\ DOMAIN v = {"minPE", "maxPE", "cheapPrice", "fairPrice",
                           "expensivePrice", "eps"}
            /\ \A f \in DOMAIN v : IsFinite(v[f])
            /\ RLe(v.minPE, v.maxPE)
            /\ RAdd(v.fairPrice, v.fairPrice) = RAdd(v.cheapPrice, v.expensivePrice)

\* C8 witness: a mock snapshot in the slot whose lowPE is below its highPE.
C8_Witness ==
    /\ IsSome(stockData)
    /\ ~Slot.isReal
    /\ RLt(Slot.valuation.minPE, Slot.valuation.maxPE)

\* Every complete snapshot a search for symbol can produce.
CompleteSnapshots(symbol) ==
    ({RealOutcome[symbol][k] : k \in 1..NumResponses} \ {None})
    \cup {Some(MockOutcome[symbol][r][t]) : r \in 1..NumStreams, t \in Days}

\* C9 (state part): the slot is empty exactly after a setStockData(null), and
\* otherwise holds one complete snapshot for the symbol of the call whose
\* state-set ran last.
C9_SlotState ==
    /\ (stockData = None) <=> (lastWriter = None)
    /\ IsSome(stockData) =>
          /\ lastWriter = Some(Slot.symbol)
          /\ stockData \in CompleteSnapshots(Slot.symbol)

\* C9 (step part): a step leaves every call in flight in flight (one place
\* up when an older call finishes) and no further back in its handler, unless
\* the step is that call finishing, which puts its own snapshot in the slot;
\* a step that issues a search adds it behind the calls in flight.
C9_NoCancelStep ==
    /\ \A i \in 1..Len(calls) :
          \/ /\ Finishes(i)
             /\ IsSome(stockData')
             /\ Get(stockData').symbol = calls[i].symbol
             /\ lastWriter' = Some(calls[i].symbol)
          \/ \E j \in {i - 1, i} \cap (1..Len(calls')) :
                /\ j = i \/ Len(calls') < Len(calls)
                /\ calls'[j].symbol = calls[i].symbol
                /\ calls'[j].pc = calls[i].pc \/ calls[i].pc = "fetch"
    /\ lastIssued' # lastIssued => Len(calls') = Len(calls) + 1

\* C9: a new search never cancels a search in flight; the slot holds the
\* snapshot of the search whose state-set ran last, and is always empty or one
\* search's complete snapshot.
C9_LastWriteWins == []C9_SlotState /\ [][C9_NoCancelStep]_vars

\* C9 witness: two overlapping searches for different symbols have both
\* settled, and the slot holds the snapshot of the one issued first.
C9_Witness ==
    /\ calls = <<>>
    /\ IsSome(stockData)
    /\ IsSome(lastIssued)
    /\ lastIssued # Some(Slot.symbol)

\* A step that issues a search.
IssuesSearch == Len(calls') > Len(calls)

\* C10: under LiveSpec, a search in flight is eventually followed by a state
\* with a snapshot in the slot and loading false, and once no further search
\* is issued the system stays in such a state.
C10_EventuallyRenders ==
    /\ (calls # <<>>) ~> (IsSome(stockData) /\ ~loading)
    /\ <>[][~IssuesSearch]_vars => <>[](IsSome(stockData) /\ ~loading /\ calls = <<>>)

\* C10 witness: a search was issued, every call has finished, the slot holds
\* a snapshot and loading is false.
C10_Witness ==
    /\ IsSome(lastIssued)
    /\ calls = <<>>
    /\ IsSome(stockData)
    /\ ~loading

\* The P/E records of the response the real snapshot in the slot was built
\* from that carry the date of history record i.
SlotPERecordsOn(i) ==
    LET per == Get(Responses[slotResp].per)
    IN  {j \in 1..Len(per) : per[j].date = Slot.historyData[i].date}

\* The history in the slot has one record per price record of the response,
\* in the order of rawPrices (the delivered records reversed), each with the
\* date and the close of its price record.
SlotHistoryFollowsPrices ==
    LET price == Get(Responses[slotResp].price)
        h == Slot.historyData
    IN  /\ Len(h) = Len(price)
        /\ \A i \in 1..Len(h) :
              /\ h[i].date = price[Len(price) - i + 1].date
              /\ h[i].close = price[Len(price) - i + 1].close

\* C11: history assembly joins P/E onto price records by exact date match,
\* one joined record per price record in the order of the price records; for
\* a price date without a P/E record the joined P/E value is an absent marker,
\* not the number 0.
C11_JoinedPEAbsentWhenNoRecord ==
    SlotIsReal =>
        /\ SlotHistoryFollowsPrices
        /\ \A i \in 1..Len(Slot.historyData) :
              SlotPERecordsOn(i) = {} => Slot.historyData[i].pe # 0

\* What the code does: the join is by exact date match, one record per price
\* record, and a price date without a P/E record (or whose record carries no
\* value) joins the number 0.
C11_JoinedPEZeroWhenNoRecord ==
    SlotIsReal =>
        /\ SlotHistoryFollowsPrices
        /\ \A i \in 1..Len(Slot.historyData) :
              LET per == Get(Responses[slotResp].per)
                  on == SlotPERecordsOn(i)
              IN  IF on = {} THEN Slot.historyData[i].pe = 0
                  ELSE \E j \in on :
                          Slot.historyData[i].pe =
                             (IF IsSome(per[j].p_e_ratio)
                              THEN Get(per[j].p_e_ratio) ELSE 0)

SlotIsMock == IsSome(stockData) /\ ~Slot.isReal

\* The closes of history h, in order.
Closes(h) == [i \in 1..Len(h) |-> h[i].close]

\* History h is 3 * 365 daily records, newest first, the newest dated the day
\* before day today, and every close is at least 10.
MockRangeAndFloor(h, today) ==
    /\ Len(h) = 3 * 365
    /\ h[1].date = today - 1
    /\ \A i \in 1..(Len(h) - 1) : h[i + 1].date = h[i].date - 1
    /\ \A i \in 1..Len(h) : h[i].close >= 10 * 100

\* C12: the mock generator is deterministic in its symbol: any two calls with
\* the same symbol produce 3 * 365 daily records ending the day before the
\* call and the same sequence of closes, and every close is at least 10.
C12_MockSameClosesForSameSymbol ==
    SlotIsMock =>
        /\ \E today \in Days : MockRangeAndFloor(Slot.historyData, today)
        /\ \A r \in 1..NumStreams, today \in Days :
              Closes(MockOutcome[Slot.symbol][r][today].historyData)
                 = Closes(Slot.historyData)

\* What the code does: the range and the floor are as C12 says, and two calls with the same symbol that draw the
\* same values from Math.random() produce the same closes, whatever the day.
C12_MockSameClosesForSameRandomValues ==
    SlotIsMock =>
        /\ \E today \in Days : MockRangeAndFloor(Slot.historyData, today)
        /\ \E r \in 1..NumStreams :
              \A today \in Days :
                 Closes(MockOutcome[Slot.symbol][r][today].historyData)
                    = Closes(Slot.historyData)

\* C13: whenever the advisory message is set and the slot holds a snapshot,
\* that snapshot is synthetic (isReal = false).
C13_AdvisoryOnlyWithSynthetic ==
    (IsSome(error) /\ IsSome(stockData)) => ~Slot.isReal

\* C14: loading is true whenever at least one search is still in flight, so
\* no snapshot is rendered (stockData && !loading) while a search is pending.
C14_LoadingWhileInFlight ==
    calls # <<>> => loading

=============================================================================
